---- MODULE Spec2Model ----
(***************************************************************************)
(* DataBlock: the typed wrapper of src/src/lib.rs over the native          *)
(* (section, name) -> (type tag, value) store reached through the C ABI.   *)
(*                                                                         *)
(* The native store itself is not part of the sources; its entry points    *)
(* (the c_datablock_... operators below) follow the contract of the        *)
(* specification (sections 3 and 6) and the status enumeration of          *)
(* lib.rs:23-42.  Everything else is translated from lib.rs.               *)
(*                                                                         *)
(* Four specifications: Spec (the calls on one DataBlock, at every type),  *)
(* SpecLife (new, clone, drop), SpecText (text, and bytes that are no      *)
(* text) and SpecFault (replace under native allocation failures).         *)
(***************************************************************************)
EXTENDS Integers, Sequences, FiniteSets, TLC

VARIABLES
    ptr,        \* ptr[b]: the native handle of the live DataBlock b (lib.rs:122-124)
    heap,       \* heap[h]: the native store behind handle h
    destroyLog, \* destroyLog[h]: how often destroy_c_datablock was called on h
    origin,     \* history: origin[b] is the handle DataBlock b was cloned from,
                \* NullPtr when it was made by new
    last,       \* the last wrapper call, what it returned and, in last.calls,
                \* the native entry points it called, in order
    prev,       \* history: the DataBlocks and the native heap before that call
    cbufs,      \* how many text buffers of the native heap, handed over by
                \* c_datablock_get_string, are allocated and not yet freed
    faults      \* the native entry points that cannot allocate at present and
                \* report DBS_MEMORY_ALLOC_FAILURE

vars == <<ptr, heap, destroyLog, origin, last, prev, cbufs, faults>>

----------------------------------------------------------------------------
(* Bounds of the model *)

MaxBlocks == 2
MaxEntries == 1

\* Every DataBlock ever made takes a handle of its own; the model makes at
\* most MaxHandles of them.
MaxHandles == MaxBlocks

\* The model stops calling the text getter once this many native text
\* buffers were left allocated.
MaxBufs == 1

BlockIds == 1..MaxBlocks
Handles == 1..MaxHandles
NullPtr == 0

Sections == {"s1", "s2"}
Keys == {<<"s1", "a">>, <<"s1", "b">>, <<"s2", "a">>}

----------------------------------------------------------------------------
(* DATABLOCK_STATUS (lib.rs:23-42) and datablock_type_t *)

DBS_SUCCESS == "DBS_SUCCESS"
DBS_SECTION_NOT_FOUND == "DBS_SECTION_NOT_FOUND"
DBS_NAME_NOT_FOUND == "DBS_NAME_NOT_FOUND"
DBS_NAME_ALREADY_EXISTS == "DBS_NAME_ALREADY_EXISTS"
DBS_WRONG_VALUE_TYPE == "DBS_WRONG_VALUE_TYPE"
DBS_SIZE_INSUFFICIENT == "DBS_SIZE_INSUFFICIENT"
DBS_MEMORY_ALLOC_FAILURE == "DBS_MEMORY_ALLOC_FAILURE"

DBT_INT == "DBT_INT"
DBT_BOOL == "DBT_BOOL"
DBT_DOUBLE == "DBT_DOUBLE"
DBT_COMPLEX == "DBT_COMPLEX"
DBT_STRING == "DBT_STRING"
DBT_INT1D == "DBT_INT1D"
DBT_DOUBLE1D == "DBT_DOUBLE1D"
DBT_COMPLEX1D == "DBT_COMPLEX1D"
DBT_UNKNOWN == "DBT_UNKNOWN"

ArrayTags == {DBT_INT1D, DBT_DOUBLE1D, DBT_COMPLEX1D}

----------------------------------------------------------------------------
(* The Rust types the wrapper is instantiated at.  "String" stands for the *)
(* str / String / CString family, "Vec_x" for [x] / Vec<x>.               *)

ScalarTypes == {"c_int", "bool", "f64", "Complex"}
VectorTypes == {"Vec_f64", "Vec_c_int", "Vec_Complex"}
StringTypes == {"String"}
Types == ScalarTypes \cup VectorTypes \cup StringTypes

Complex(re, im) == [re |-> re, im |-> im]

\* The values the operations are called with, per type.
Vals(T) ==
    CASE T = "c_int" -> {0, 1}
      [] T = "bool" -> {TRUE}
      [] T = "f64" -> {3}
      [] T = "Complex" -> {Complex(1, 2)}
      [] T = "String" -> {<<97, 98>>}
      [] T = "Vec_f64" -> {<<>>, <<1, 2>>}
      [] T = "Vec_c_int" -> {<<>>, <<2, 1>>}
      [] T = "Vec_Complex" -> {<<>>, <<Complex(1, 2), Complex(0, 0)>>}

\* Text as its bytes.  The &str values put::<str> is called with: the empty
\* text, "ab", the two-byte character U+00E9, and a text with a NUL inside.
TextVals == {<<>>, <<97, 98>>, <<195, 169>>, <<97, 0, 98>>}

\* The &CStr values CString::direct_put_datablock is called with: any bytes
\* without a NUL, valid text or not (255 is a byte no UTF-8 text holds).
CStrVals == {<<97>>, <<255>>}

\* A value of Rust type T.
RV(T, v) == [ty |-> T, val |-> v]

\* CosmosisResult<T> (lib.rs:101) and CosmosisError (lib.rs:50-53): the
\* reason text is not modelled, the kind is.
Ok(obj) == [ok |-> TRUE, obj |-> obj]
Err(kind) == [ok |-> FALSE, kind |-> kind]
Unit == [ty |-> "unit"]
None == [some |-> FALSE]
Some(obj) == [some |-> TRUE, obj |-> obj]

\* The call did not return: an unwrap or expect of the wrapper panicked.
Panic == [ok |-> FALSE, kind |-> "panic"]

\* One step of a wrapper call that is seen outside it: the call of a native
\* entry point, for entries of type `tag`, and the status it returned; or a
\* step on a text buffer.
Called(fn, tag, status) == [fn |-> fn, tag |-> tag, status |-> status]

----------------------------------------------------------------------------
(* The native store.  A store is [state, sections, entries]: entries[k] is *)
(* NoEntry or a tagged value.  A section exists from the first put into    *)
(* it; nothing the wrapper calls removes a section or an entry.            *)

NoEntry == [present |-> FALSE]
Entry(tag, v) == [present |-> TRUE, ty |-> tag, val |-> v]

EmptyStore == [state |-> "live", sections |-> {}, entries |-> [k \in Keys |-> NoEntry]]
Unallocated == [state |-> "unallocated", sections |-> {}, entries |-> [k \in Keys |-> NoEntry]]

Freed == [state |-> "freed", sections |-> {}, entries |-> [k \in Keys |-> NoEntry]]

NumEntries(st) == Cardinality({k \in Keys : st.entries[k].present})

\* has-section / has-value: a boolean, never fails.
c_datablock_has_section(st, section) == section \in st.sections

c_datablock_has_value(st, k) == st.entries[k].present

\* What every native lookup of (section, name) reports before it looks at
\* the value: section-not-found for a section never created, name-not-found
\* for a name never written in an existing section.
LookupStatus(st, k) ==
    IF k[1] \notin st.sections THEN DBS_SECTION_NOT_FOUND
    ELSE IF ~st.entries[k].present THEN DBS_NAME_NOT_FOUND
    ELSE DBS_SUCCESS

\* get-type: a status and the out-parameter, written on success only.
c_datablock_get_type(st, k, ty) ==
    LET s == LookupStatus(st, k) IN
    IF s = DBS_SUCCESS THEN [status |-> s, ty |-> st.entries[k].ty]
    ELSE [status |-> s, ty |-> ty]

\* get-array-length: the length of a stored 1-D array, negative when the
\* entry is absent or is no 1-D array.
c_datablock_get_array_length(st, k) ==
    IF LookupStatus(st, k) = DBS_SUCCESS /\ st.entries[k].ty \in ArrayTags
    THEN Len(st.entries[k].val)
    ELSE -1

\* The scalar getter for entries tagged `tag` (c_datablock_get_int, _bool,
\* _double, _complex): a status and the out-parameter, written on success only.
c_datablock_get(tag, st, k, out) ==
    LET s == LookupStatus(st, k) IN
    IF s # DBS_SUCCESS THEN [status |-> s, out |-> out]
    ELSE IF st.entries[k].ty # tag THEN [status |-> DBS_WRONG_VALUE_TYPE, out |-> out]
    ELSE [status |-> DBS_SUCCESS, out |-> st.entries[k].val]

\* The bulk getter for arrays tagged `tag`
\* (c_datablock_get_..._array_1d_preallocated): fills the caller's buffer, of
\* capacity maxsize, and reports the stored length in size.
c_datablock_get_array_1d_preallocated(tag, st, k, buf, size, maxsize) ==
    LET s == LookupStatus(st, k) IN
    IF s # DBS_SUCCESS THEN [status |-> s, buf |-> buf, size |-> size]
    ELSE IF st.entries[k].ty # tag
    THEN [status |-> DBS_WRONG_VALUE_TYPE, buf |-> buf, size |-> size]
    ELSE LET a == st.entries[k].val IN
         IF Len(a) > maxsize
         THEN [status |-> DBS_SIZE_INSUFFICIENT, buf |-> buf, size |-> Len(a)]
         ELSE [status |-> DBS_SUCCESS,
               buf |-> a \o SubSeq(buf, Len(a) + 1, Len(buf)),
               size |-> Len(a)]

\* The bytes of a NUL-terminated buffer, up to the terminator.
CStrBytes(p) ==
    LET nul == {i \in 1..Len(p) : p[i] = 0} IN
    IF nul = {} THEN p
    ELSE SubSeq(p, 1, (CHOOSE i \in nul : \A j \in nul : i <= j) - 1)

\* The entry points that allocate and so can report
\* DBS_MEMORY_ALLOC_FAILURE: the text getter (the copy it hands over), the
\* putters and the replacers (the value they store).
FaultPoints == {"get_string", "put", "replace"}

\* get-string: hands over a native-heap, NUL-terminated copy of the text;
\* the out-parameter is written on success only.
c_datablock_get_string(st, k, out) ==
    LET s == LookupStatus(st, k) IN
    IF s # DBS_SUCCESS THEN [status |-> s, out |-> out]
    ELSE IF st.entries[k].ty # DBT_STRING THEN [status |-> DBS_WRONG_VALUE_TYPE, out |-> out]
    ELSE IF "get_string" \in faults THEN [status |-> DBS_MEMORY_ALLOC_FAILURE, out |-> out]
    ELSE [status |-> DBS_SUCCESS, out |-> st.entries[k].val \o <<0>>]

\* The putters: create the section when it is new; fail, changing nothing,
\* when the name already holds a value of any type.
NativePut(st, k, tag, v) ==
    IF st.entries[k].present
    THEN [status |-> DBS_NAME_ALREADY_EXISTS, st |-> st]
    ELSE IF "put" \in faults THEN [status |-> DBS_MEMORY_ALLOC_FAILURE, st |-> st]
    ELSE [status |-> DBS_SUCCESS,
          st |-> [st EXCEPT !.sections = @ \cup {k[1]},
                            !.entries[k] = Entry(tag, v)]]

c_datablock_put(tag, st, k, v) == NativePut(st, k, tag, v)

c_datablock_put_array_1d(tag, st, k, p, sz) == NativePut(st, k, tag, SubSeq(p, 1, sz))

c_datablock_put_string(st, k, p) == NativePut(st, k, DBT_STRING, CStrBytes(p))

\* The replacers: overwrite the value of an existing entry of the same tag.
NativeReplace(st, k, tag, v) ==
    LET s == LookupStatus(st, k) IN
    IF s # DBS_SUCCESS THEN [status |-> s, st |-> st]
    ELSE IF st.entries[k].ty # tag THEN [status |-> DBS_WRONG_VALUE_TYPE, st |-> st]
    ELSE IF "replace" \in faults THEN [status |-> DBS_MEMORY_ALLOC_FAILURE, st |-> st]
    ELSE [status |-> DBS_SUCCESS, st |-> [st EXCEPT !.entries[k] = Entry(tag, v)]]

c_datablock_replace(tag, st, k, v) == NativeReplace(st, k, tag, v)

c_datablock_replace_array_1d(tag, st, k, p, sz) == NativeReplace(st, k, tag, SubSeq(p, 1, sz))

c_datablock_replace_string(st, k, p) == NativeReplace(st, k, DBT_STRING, CStrBytes(p))

\* create / clone / destroy: infallible; clone copies the whole store.
make_c_datablock == EmptyStore

clone_c_datablock(st) == [st EXCEPT !.state = "live"]

destroy_c_datablock(st) == Freed

----------------------------------------------------------------------------
(* The wrapper: lib.rs.  The operators take the native store `st` behind   *)
(* the DataBlock's handle; the actions further down dereference the handle.*)

\* Mutant: the status is not looked at.
wrap_always_ok(err, obj) == Ok(obj)

\* wrap_cosmosis_result! (lib.rs:103-118)
wrap_cosmosis_result(err, obj) ==
    IF err = DBS_SUCCESS THEN Ok(obj) ELSE Err(err)

\* Result::map with |s| Some(s) (lib.rs:210) and with |()| None (lib.rs:213)
map_Some(r) == IF r.ok THEN Ok(Some(r.obj)) ELSE r

map_None(r) == IF r.ok THEN Ok(None) ELSE r

\* CosmosisDataType::cosmosis_type (lib.rs:272-274, 337-339, 428-430)
cosmosis_type(T) ==
    CASE T = "c_int" -> DBT_INT
      [] T = "bool" -> DBT_BOOL
      [] T = "f64" -> DBT_DOUBLE
      [] T = "Complex" -> DBT_COMPLEX
      [] T = "String" -> DBT_STRING
      [] T = "Vec_f64" -> DBT_DOUBLE1D
      [] T = "Vec_c_int" -> DBT_INT1D
      [] T = "Vec_Complex" -> DBT_COMPLEX1D

\* $default_val of gen_cosmosis_data_type! (lib.rs:314, 318, 322, 326)
default_val(T) ==
    CASE T = "c_int" -> 0
      [] T = "bool" -> FALSE
      [] T = "f64" -> 0
      [] T = "Complex" -> Complex(0, 0)

\* $getter, $putter, $replacer of the macro invocations (lib.rs:314-329,
\* 412-423): the native entry point each type is bound to, named by the tag
\* that entry point serves.
getter(T) ==
    CASE T = "c_int" -> DBT_INT
      [] T = "bool" -> DBT_BOOL
      [] T = "f64" -> DBT_DOUBLE
      [] T = "Complex" -> DBT_COMPLEX
      [] T = "Vec_f64" -> DBT_DOUBLE1D
      [] T = "Vec_c_int" -> DBT_INT1D
      [] T = "Vec_Complex" -> DBT_COMPLEX1D

putter(T) ==
    CASE T = "c_int" -> DBT_INT
      [] T = "bool" -> DBT_BOOL
      [] T = "f64" -> DBT_DOUBLE
      [] T = "Complex" -> DBT_COMPLEX
      [] T = "Vec_f64" -> DBT_DOUBLE1D
      [] T = "Vec_c_int" -> DBT_INT1D
      [] T = "Vec_Complex" -> DBT_COMPLEX1D

replacer(T) ==
    CASE T = "c_int" -> DBT_INT
      [] T = "bool" -> DBT_BOOL
      [] T = "f64" -> DBT_DOUBLE
      [] T = "Complex" -> DBT_COMPLEX
      [] T = "Vec_f64" -> DBT_DOUBLE1D
      [] T = "Vec_c_int" -> DBT_INT1D
      [] T = "Vec_Complex" -> DBT_COMPLEX1D

\* DataBlock::contains (lib.rs:157-163)
contains(st, k) == c_datablock_has_value(st, k)

\* DataBlock::contains_section (lib.rs:166-171)
contains_section(st, section) == c_datablock_has_section(st, section)

\* Mutant: every status of the type query yields Some.
get_type_always_some(st, k) ==
    Some(c_datablock_get_type(st, k, DBT_UNKNOWN).ty)

\* DataBlock::get_type (lib.rs:174-187)
get_type(st, k) ==
    LET ty == DBT_UNKNOWN
        result == c_datablock_get_type(st, k, ty)
    IN  IF result.status = DBS_NAME_NOT_FOUND THEN None ELSE Some(result.ty)

\* Mutant: the scratch value is returned, not what the getter wrote.
scalar_direct_get_returns_scratch(st, T, k) ==
    LET n == default_val(T)
        r == c_datablock_get(getter(T), st, k, n)
    IN  wrap_cosmosis_result(r.status, RV(T, n))

\* gen_cosmosis_data_type!: direct_get_datablock (lib.rs:276-286)
scalar_direct_get_datablock(st, T, k) ==
    LET n == default_val(T)
        r == c_datablock_get(getter(T), st, k, n)
    IN  wrap_cosmosis_result(r.status, RV(T, r.out))

\* The native calls of that direct_get_datablock (lib.rs:278-283).
scalar_direct_get_calls(st, T, k) ==
    LET n == default_val(T)
        r == c_datablock_get(getter(T), st, k, n)
    IN  <<Called("c_datablock_get", getter(T), r.status)>>

\* gen_cosmosis_data_type!: direct_put_datablock (lib.rs:288-297)
scalar_direct_put_datablock(st, T, k, obj) ==
    LET r == c_datablock_put(putter(T), st, k, obj)
    IN  [res |-> wrap_cosmosis_result(r.status, Unit), st |-> r.st,
         calls |-> <<Called("c_datablock_put", putter(T), r.status)>>]

\* The content of a buffer the wrapper has not written: Vec::with_capacity
\* followed by set_len (lib.rs:358-360).
Uninit == -1

\* Mutant: the two errors of a negative length are exchanged.
vector_direct_get_errors_swapped(st, T, k) ==
    LET size == c_datablock_get_array_length(st, k) IN
    IF size < 0
    THEN IF contains(st, k)
         THEN Err(DBS_NAME_NOT_FOUND)
         ELSE Err(DBS_WRONG_VALUE_TYPE)
    ELSE LET vec == [i \in 1..size |-> Uninit]
             r == c_datablock_get_array_1d_preallocated(getter(T), st, k, vec, size, size)
         IN  wrap_cosmosis_result(r.status, RV(T, r.buf))

\* Mutant: a length of zero is taken for a failed probe (size <= 0).
vector_direct_get_zero_is_absent(st, T, k) ==
    LET size == c_datablock_get_array_length(st, k) IN
    IF size <= 0
    THEN IF contains(st, k)
         THEN Err(DBS_WRONG_VALUE_TYPE)
         ELSE Err(DBS_NAME_NOT_FOUND)
    ELSE LET vec == [i \in 1..size |-> Uninit]
             r == c_datablock_get_array_1d_preallocated(getter(T), st, k, vec, size, size)
         IN  wrap_cosmosis_result(r.status, RV(T, r.buf))

\* gen_cosmosis_vector_type!: direct_get_datablock (lib.rs:341-371)
vector_direct_get_datablock(st, T, k) ==
    LET size == c_datablock_get_array_length(st, k) IN
    IF size < 0
    THEN IF contains(st, k)
         THEN Err(DBS_WRONG_VALUE_TYPE)
         ELSE Err(DBS_NAME_NOT_FOUND)
    ELSE LET vec == [i \in 1..size |-> Uninit]
             r == c_datablock_get_array_1d_preallocated(getter(T), st, k, vec, size, size)
         IN  wrap_cosmosis_result(r.status, RV(T, r.buf))

\* The native calls of that direct_get_datablock: the length probe, then
\* the presence check or the bulk getter (lib.rs:342-367).
vector_direct_get_calls(st, T, k) ==
    LET size == c_datablock_get_array_length(st, k) IN
    IF size < 0
    THEN <<Called("c_datablock_get_array_length", "-", "negative"),
           Called("c_datablock_has_value", "-", IF contains(st, k) THEN "true" ELSE "false")>>
    ELSE LET vec == [i \in 1..size |-> Uninit]
             r == c_datablock_get_array_1d_preallocated(getter(T), st, k, vec, size, size)
         IN  <<Called("c_datablock_get_array_length", "-", "length"),
               Called("c_datablock_get_array_1d_preallocated", getter(T), r.status)>>

\* gen_cosmosis_vector_type!: direct_put_datablock (lib.rs:373-383)
vector_direct_put_datablock(st, T, k, obj) ==
    LET r == c_datablock_put_array_1d(putter(T), st, k, obj, Len(obj))
    IN  [res |-> wrap_cosmosis_result(r.status, Unit), st |-> r.st,
         calls |-> <<Called("c_datablock_put_array_1d", putter(T), r.status)>>]

\* A text has a NUL inside: CString::new fails on it.
HasNul(bytes) == \E i \in 1..Len(bytes) : bytes[i] = 0

\* CString::new: the bytes with the terminator appended.
CString_new(bytes) == bytes \o <<0>>

\* CStr::to_str succeeds: the bytes are well-formed UTF-8 (lead byte, then
\* its continuation bytes; overlong and surrogate forms are not told apart).
RECURSIVE Utf8Valid(_)
Utf8Valid(bytes) ==
    LET Cont(i) == i <= Len(bytes) /\ bytes[i] \in 128..191 IN
    IF bytes = <<>> THEN TRUE
    ELSE IF bytes[1] < 128 THEN Utf8Valid(SubSeq(bytes, 2, Len(bytes)))
    ELSE IF bytes[1] \in 194..223 /\ Cont(2)
    THEN Utf8Valid(SubSeq(bytes, 3, Len(bytes)))
    ELSE IF bytes[1] \in 224..239 /\ Cont(2) /\ Cont(3)
    THEN Utf8Valid(SubSeq(bytes, 4, Len(bytes)))
    ELSE IF bytes[1] \in 240..244 /\ Cont(2) /\ Cont(3) /\ Cont(4)
    THEN Utf8Valid(SubSeq(bytes, 5, Len(bytes)))
    ELSE FALSE

\* The native calls and the buffer steps of CString::direct_get_datablock
\* (lib.rs:434-449): the getter; on success, to_str().unwrap(), the copy by
\* CString::new, then libc::free of the native buffer; nothing more on a failure.
cstring_direct_get_calls(st, k) ==
    LET cstr == <<>>
        r == c_datablock_get_string(st, k, cstr)
    IN  <<Called("c_datablock_get_string", DBT_STRING, r.status)>> \o
        (IF r.status # DBS_SUCCESS THEN <<>>
         ELSE IF ~Utf8Valid(CStrBytes(r.out))
         THEN <<Called("CStr::to_str", "native_heap", "panic")>>
         ELSE <<Called("CStr::to_str", "native_heap", "ok"),
                Called("CString::new", "caller_heap", "copied"),
                Called("libc::free", "native_heap", "freed")>>)

\* Mutant: the result is the whole buffer, its terminator included.
cstring_direct_get_keeps_terminator(st, k) ==
    LET cstr == <<>>
        r == c_datablock_get_string(st, k, cstr)
    IN  IF r.status = DBS_SUCCESS /\ ~Utf8Valid(CStrBytes(r.out)) THEN Panic
        ELSE wrap_cosmosis_result(r.status, RV("String", r.out))

\* CString::direct_get_datablock (lib.rs:432-452): the macro evaluates the
\* copy only on success; to_str().unwrap() panics on bytes that are no text.
cstring_direct_get_datablock(st, k) ==
    LET cstr == <<>>
        r == c_datablock_get_string(st, k, cstr)
    IN  IF r.status = DBS_SUCCESS /\ ~Utf8Valid(CStrBytes(r.out)) THEN Panic
        ELSE wrap_cosmosis_result(r.status,
                                  RV("String", CStrBytes(CString_new(CStrBytes(r.out)))))

\* CString::direct_put_datablock (lib.rs:454-463)
cstring_direct_put_datablock(st, k, obj) ==
    LET r == c_datablock_put_string(st, k, obj)
    IN  [res |-> wrap_cosmosis_result(r.status, Unit), st |-> r.st,
         calls |-> <<Called("c_datablock_put_string", DBT_STRING, r.status)>>]

\* CosmosisDataType::direct_get_datablock, by type
direct_get_datablock(st, T, k) ==
    IF T \in ScalarTypes THEN scalar_direct_get_datablock(st, T, k)
    ELSE IF T \in VectorTypes THEN vector_direct_get_datablock(st, T, k)
    ELSE cstring_direct_get_datablock(st, k)

\* The native calls of direct_get_datablock, by type
direct_get_calls(st, T, k) ==
    IF T \in ScalarTypes THEN scalar_direct_get_calls(st, T, k)
    ELSE IF T \in VectorTypes THEN vector_direct_get_calls(st, T, k)
    ELSE cstring_direct_get_calls(st, k)

\* CosmosisGettable::get_datablock (lib.rs:240-245, 478-484)
get_datablock(st, T, k) == direct_get_datablock(st, T, k)

\* CosmosisStorable::put_datablock (lib.rs:258-260, 402-404, 490-492); for
\* str, CString::new(obj).unwrap() panics on a text with a NUL inside.
put_datablock(st, T, k, obj) ==
    IF T \in ScalarTypes THEN scalar_direct_put_datablock(st, T, k, obj)
    ELSE IF T \in VectorTypes THEN vector_direct_put_datablock(st, T, k, obj)
    ELSE IF HasNul(obj) THEN [res |-> Panic, st |-> st, calls |-> <<>>]
    ELSE cstring_direct_put_datablock(st, k, CString_new(obj))

\* The native replace entry point of type T and what it returns.
native_replace(st, T, k, obj) ==
    IF T \in ScalarTypes THEN c_datablock_replace(replacer(T), st, k, obj)
    ELSE IF T \in VectorTypes
    THEN c_datablock_replace_array_1d(replacer(T), st, k, obj, Len(obj))
    ELSE c_datablock_replace_string(st, k, obj)

\* Its call, as a step of the wrapper call.
replace_called(T, status) ==
    IF T \in ScalarTypes THEN Called("c_datablock_replace", replacer(T), status)
    ELSE IF T \in VectorTypes THEN Called("c_datablock_replace_array_1d", replacer(T), status)
    ELSE Called("c_datablock_replace_string", DBT_STRING, status)

\* Mutant: the value is read after the native replace, not before it.
direct_replace_reads_after(st, T, k, obj) ==
    LET r == native_replace(st, T, k, obj)
        result == direct_get_datablock(r.st, T, k)
        calls == <<replace_called(T, r.status)>> \o direct_get_calls(r.st, T, k)
    IN  IF ~result.ok THEN [res |-> result, st |-> r.st, calls |-> calls]
        ELSE [res |-> wrap_cosmosis_result(r.status, result.obj), st |-> r.st,
              calls |-> calls]

\* Mutant: a failed read does not end the call (no `?`); the native replace
\* is called all the same, and the read's error returned after it.
direct_replace_ignores_read_error(st, T, k, obj) ==
    LET result == direct_get_datablock(st, T, k)
        r == native_replace(st, T, k, obj)
        calls == direct_get_calls(st, T, k) \o <<replace_called(T, r.status)>>
    IN  IF ~result.ok THEN [res |-> result, st |-> r.st, calls |-> calls]
        ELSE [res |-> wrap_cosmosis_result(r.status, result.obj), st |-> r.st,
              calls |-> calls]

\* Mutant: the status of the native replace is dropped, and the value read
\* returned whatever it was.
direct_replace_keeps_old_on_failure(st, T, k, obj) ==
    LET result == direct_get_datablock(st, T, k) IN
    IF ~result.ok THEN [res |-> result, st |-> st, calls |-> direct_get_calls(st, T, k)]
    ELSE LET r == native_replace(st, T, k, obj)
         IN  [res |-> Ok(result.obj), st |-> r.st,
              calls |-> direct_get_calls(st, T, k) \o <<replace_called(T, r.status)>>]

\* direct_replace_datablock (lib.rs:299-309, 385-396, 465-475): the read,
\* ended by `?` on its failure, then the native replace.
direct_replace_datablock(st, T, k, obj) ==
    LET result == direct_get_datablock(st, T, k) IN
    IF ~result.ok THEN [res |-> result, st |-> st, calls |-> direct_get_calls(st, T, k)]
    ELSE LET r == native_replace(st, T, k, obj)
         IN  [res |-> wrap_cosmosis_result(r.status, result.obj), st |-> r.st,
              calls |-> direct_get_calls(st, T, k) \o <<replace_called(T, r.status)>>]

\* CosmosisStorable::replace_datablock (lib.rs:261-263, 405-407, 494-497);
\* for str, CString::new(obj).unwrap() panics on a text with a NUL inside.
replace_datablock(st, T, k, obj) ==
    IF T \in StringTypes
    THEN IF HasNul(obj) THEN [res |-> Panic, st |-> st, calls |-> <<>>]
         ELSE direct_replace_datablock(st, T, k, CString_new(obj))
    ELSE direct_replace_datablock(st, T, k, obj)

\* Mutant: unwrap_or(true).
is_type_absent_is_true(st, C, k) ==
    LET t == get_type(st, k) IN
    IF t.some THEN t.obj = cosmosis_type(C) ELSE TRUE

\* DataBlock::is_type (lib.rs:192-194)
is_type(st, C, k) ==
    LET t == get_type(st, k) IN
    IF t.some THEN t.obj = cosmosis_type(C) ELSE FALSE

\* DataBlock::get (lib.rs:197-200)
get(st, T, k) == get_datablock(st, T, k)

\* The call of has-value by DataBlock::contains, as a step of a wrapper call.
contains_called(st, k) ==
    Called("c_datablock_has_value", "-", IF contains(st, k) THEN "true" ELSE "false")

\* Mutant: at a key that holds a value, insert overwrites the entry with
\* the new value under T's tag, whatever type it held.
insert_retags(st, T, k, obj) ==
    IF contains(st, k)
    THEN LET r == replace_datablock(st, T, k, obj)
         IN  [res |-> map_Some(r.res),
              st |-> [st EXCEPT !.entries[k] = Entry(cosmosis_type(T), obj)],
              calls |-> <<contains_called(st, k)>> \o r.calls]
    ELSE LET r == put_datablock(st, T, k, obj)
         IN  [res |-> map_None(r.res), st |-> r.st,
              calls |-> <<contains_called(st, k)>> \o r.calls]

\* DataBlock::insert (lib.rs:205-215): the outcome of the replace or of the
\* put, its result mapped, after the call of contains.
insert(st, T, k, obj) ==
    IF contains(st, k)
    THEN [replace_datablock(st, T, k, obj) EXCEPT
              !.res = map_Some(@), !.calls = <<contains_called(st, k)>> \o @]
    ELSE [put_datablock(st, T, k, obj) EXCEPT
              !.res = map_None(@), !.calls = <<contains_called(st, k)>> \o @]

\* Mutant: put overwrites an entry that exists.
put_overwrites(st, T, k, obj) ==
    IF contains(st, k)
    THEN [res |-> Ok(Unit),
          st |-> [st EXCEPT !.entries[k] = Entry(cosmosis_type(T), obj)],
          calls |-> <<>>]
    ELSE put_datablock(st, T, k, obj)

\* DataBlock::put (lib.rs:218-222)
put(st, T, k, obj) == put_datablock(st, T, k, obj)

----------------------------------------------------------------------------
(* The state machine.  DOMAIN ptr is the set of DataBlock values alive;    *)
(* a dropped or moved-from value is gone, as Rust's ownership has it.      *)

Live == DOMAIN ptr
Snapshot == [ptr |-> ptr, heap |-> heap]
\* The name of the next DataBlock value made: names are arbitrary, the model
\* takes the least free one.
IsNextBlock(b) == b \in BlockIds \ Live /\ \A x \in BlockIds \ Live : b <= x
DB(b) == heap[ptr[b]]
FreshHandles == {h \in Handles : heap[h].state = "unallocated"}

\* Room for one more entry at k: the model's cap on the size of a store.
Room(st, k) == st.entries[k].present \/ NumEntries(st) < MaxEntries

\* The native text buffers a wrapper call at type T leaves allocated: those
\* the text getter handed over, less those given to libc::free.  Only the
\* calls at a text type reach the text getter.
Outstanding(T, calls) ==
    IF T \notin StringTypes THEN 0
    ELSE Cardinality({i \in 1..Len(calls) : calls[i].fn = "c_datablock_get_string"
                                             /\ calls[i].status = DBS_SUCCESS})
         - Cardinality({i \in 1..Len(calls) : calls[i].fn = "libc::free"})

\* In the actions, \E r \in {e} names the one outcome e of the call.

\* DataBlock::put
Put(b, T, k, v) ==
    /\ b \in Live
    /\ Room(DB(b), k)
    /\ \E r \in {put(DB(b), T, k, v)} :
       /\ heap' = [heap EXCEPT ![ptr[b]] = r.st]
       /\ prev' = Snapshot
       /\ last' = [op |-> "put", blk |-> b, ty |-> T, key |-> k, arg |-> v,
                   res |-> r.res, calls |-> r.calls]
    /\ UNCHANGED <<ptr, destroyLog, origin, cbufs, faults>>

\* CString::direct_put_datablock, called on the bytes of a &CStr
\* (lib.rs:454-463)
PutCStr(b, k, bytes) ==
    /\ b \in Live
    /\ Room(DB(b), k)
    /\ \E r \in {cstring_direct_put_datablock(DB(b), k, CString_new(bytes))} :
       /\ heap' = [heap EXCEPT ![ptr[b]] = r.st]
       /\ prev' = Snapshot
       /\ last' = [op |-> "direct_put", blk |-> b, ty |-> "CString", key |-> k,
                   arg |-> bytes, res |-> r.res, calls |-> r.calls]
    /\ UNCHANGED <<ptr, destroyLog, origin, cbufs, faults>>

\* DataBlock::insert
Insert(b, T, k, v) ==
    /\ b \in Live
    /\ Room(DB(b), k)
    /\ \E r \in {insert(DB(b), T, k, v)} :
       /\ heap' = [heap EXCEPT ![ptr[b]] = r.st]
       /\ prev' = Snapshot
       /\ last' = [op |-> "insert", blk |-> b, ty |-> T, key |-> k, arg |-> v,
                   res |-> r.res, calls |-> r.calls]
       /\ cbufs' = cbufs + Outstanding(T, r.calls)
    /\ cbufs' <= MaxBufs
    /\ UNCHANGED <<ptr, destroyLog, origin, faults>>

\* CosmosisStorable::replace_datablock, called directly (lib.rs:252, 261-263,
\* 405-407, 494-497)
Replace(b, T, k, v) ==
    /\ b \in Live
    /\ \E r \in {replace_datablock(DB(b), T, k, v)} :
       /\ heap' = [heap EXCEPT ![ptr[b]] = r.st]
       /\ prev' = Snapshot
       /\ last' = [op |-> "replace", blk |-> b, ty |-> T, key |-> k, arg |-> v,
                   res |-> r.res, calls |-> r.calls]
       /\ cbufs' = cbufs + Outstanding(T, r.calls)
    /\ cbufs' <= MaxBufs
    /\ UNCHANGED <<ptr, destroyLog, origin, faults>>

\* DataBlock::get
Get(b, T, k) ==
    /\ b \in Live
    /\ prev' = Snapshot
    /\ \E calls \in {direct_get_calls(DB(b), T, k)} :
       /\ last' = [op |-> "get", blk |-> b, ty |-> T, key |-> k,
                   res |-> get(DB(b), T, k), calls |-> calls]
       /\ cbufs' = cbufs + Outstanding(T, calls)
    /\ cbufs' <= MaxBufs
    /\ UNCHANGED <<ptr, heap, destroyLog, origin, faults>>

\* The native allocator runs short, or recovers: from now on the entry
\* points in F report DBS_MEMORY_ALLOC_FAILURE where they would allocate.
Arm(F) ==
    /\ F # faults
    /\ faults' = F
    /\ prev' = Snapshot
    /\ last' = [op |-> "arm", blk |-> NullPtr]
    /\ UNCHANGED <<ptr, heap, destroyLog, origin, cbufs>>

\* DataBlock::contains
Contains(b, k) ==
    /\ b \in Live
    /\ prev' = Snapshot
    /\ last' = [op |-> "contains", blk |-> b, key |-> k, res |-> contains(DB(b), k)]
    /\ UNCHANGED <<ptr, heap, destroyLog, origin, cbufs, faults>>

\* DataBlock::contains_section
ContainsSection(b, section) ==
    /\ b \in Live
    /\ prev' = Snapshot
    /\ last' = [op |-> "contains_section", blk |-> b, section |-> section,
                res |-> contains_section(DB(b), section)]
    /\ UNCHANGED <<ptr, heap, destroyLog, origin, cbufs, faults>>

\* DataBlock::get_type
GetType(b, k) ==
    /\ b \in Live
    /\ prev' = Snapshot
    /\ last' = [op |-> "get_type", blk |-> b, key |-> k, res |-> get_type(DB(b), k)]
    /\ UNCHANGED <<ptr, heap, destroyLog, origin, cbufs, faults>>

\* DataBlock::is_type
IsType(b, C, k) ==
    /\ b \in Live
    /\ prev' = Snapshot
    /\ last' = [op |-> "is_type", blk |-> b, ty |-> C, key |-> k,
                res |-> is_type(DB(b), C, k)]
    /\ UNCHANGED <<ptr, heap, destroyLog, origin, cbufs, faults>>

\* DataBlock::new / Default::default (lib.rs:126-132, 151-153)
New(b) ==
    /\ IsNextBlock(b)
    /\ FreshHandles # {}
    /\ LET h == CHOOSE x \in FreshHandles : \A y \in FreshHandles : x <= y IN
       /\ heap' = [heap EXCEPT ![h] = make_c_datablock]
       /\ ptr' = [x \in Live \cup {b} |-> IF x = b THEN h ELSE ptr[x]]
    /\ origin' = [x \in Live \cup {b} |-> IF x = b THEN NullPtr ELSE origin[x]]
    /\ prev' = Snapshot
    /\ last' = [op |-> "new", blk |-> b]
    /\ UNCHANGED <<destroyLog, cbufs, faults>>

\* Mutant: the clone wraps a new, empty native store (make, not clone).
CloneMakesEmpty(b, c) ==
    /\ b \in Live
    /\ IsNextBlock(c)
    /\ FreshHandles # {}
    /\ LET h == CHOOSE x \in FreshHandles : \A y \in FreshHandles : x <= y IN
       /\ heap' = [heap EXCEPT ![h] = make_c_datablock]
       /\ ptr' = [x \in Live \cup {c} |-> IF x = c THEN h ELSE ptr[x]]
    /\ origin' = [x \in Live \cup {c} |-> IF x = c THEN ptr[b] ELSE origin[x]]
    /\ prev' = Snapshot
    /\ last' = [op |-> "clone", blk |-> c, src |-> b]
    /\ UNCHANGED <<destroyLog, cbufs, faults>>

\* Mutant: the clone copies the handle (a derived, field-by-field Clone).
CloneCopiesPtr(b, c) ==
    /\ b \in Live
    /\ IsNextBlock(c)
    /\ ptr' = [x \in Live \cup {c} |-> IF x = c THEN ptr[b] ELSE ptr[x]]
    /\ origin' = [x \in Live \cup {c} |-> IF x = c THEN ptr[b] ELSE origin[x]]
    /\ prev' = Snapshot
    /\ last' = [op |-> "clone", blk |-> c, src |-> b]
    /\ UNCHANGED <<heap, destroyLog, cbufs, faults>>

\* Clone::clone (lib.rs:134-140): c is the new DataBlock, b the one cloned.
Clone(b, c) ==
    /\ b \in Live
    /\ IsNextBlock(c)
    /\ FreshHandles # {}
    /\ LET h == CHOOSE x \in FreshHandles : \A y \in FreshHandles : x <= y IN
       /\ heap' = [heap EXCEPT ![h] = clone_c_datablock(DB(b))]
       /\ ptr' = [x \in Live \cup {c} |-> IF x = c THEN h ELSE ptr[x]]
    /\ origin' = [x \in Live \cup {c} |-> IF x = c THEN ptr[b] ELSE origin[x]]
    /\ prev' = Snapshot
    /\ last' = [op |-> "clone", blk |-> c, src |-> b]
    /\ UNCHANGED <<destroyLog, cbufs, faults>>

\* Drop::drop (lib.rs:142-148): runs when the DataBlock b goes out of scope.
Drop(b) ==
    /\ b \in Live
    /\ heap' = [heap EXCEPT ![ptr[b]] = destroy_c_datablock(@)]
    /\ destroyLog' = [destroyLog EXCEPT ![ptr[b]] = @ + 1]
    /\ ptr' = [x \in Live \ {b} |-> ptr[x]]
    /\ origin' = [x \in Live \ {b} |-> origin[x]]
    /\ prev' = Snapshot
    /\ last' = [op |-> "drop", blk |-> b, handle |-> ptr[b]]
    /\ UNCHANGED <<cbufs, faults>>

\* After `let mut db = DataBlock::new();`
Init ==
    /\ ptr = [b \in {1} |-> 1]
    /\ heap = [h \in Handles |-> IF h = 1 THEN make_c_datablock ELSE Unallocated]
    /\ destroyLog = [h \in Handles \cup {NullPtr} |-> 0]
    /\ origin = [b \in {1} |-> NullPtr]
    /\ last = [op |-> "new", blk |-> 1]
    /\ prev = [ptr |-> [b \in {} |-> NullPtr], heap |-> [h \in Handles |-> Unallocated]]
    /\ cbufs = 0
    /\ faults = {}

\* The types insert can be called at: its T is Sized (lib.rs:205-207, no
\* ?Sized as put has), and the Sized types that are CosmosisStorable are the
\* scalars (lib.rs:255); [x] and str are not Sized.
InsertTypes == ScalarTypes

\* The calls on one DataBlock, at every supported type.
Next ==
    \/ \E b \in BlockIds, T \in Types, k \in Keys : \E v \in Vals(T) : Put(b, T, k, v)
    \/ \E b \in BlockIds, T \in InsertTypes, k \in Keys : \E v \in Vals(T) : Insert(b, T, k, v)
    \/ \E b \in BlockIds, T \in Types, k \in Keys : Get(b, T, k)
    \/ \E b \in BlockIds, k \in Keys : Contains(b, k)
    \/ \E b \in BlockIds, section \in Sections : ContainsSection(b, section)
    \/ \E b \in BlockIds, k \in Keys : GetType(b, k)
    \/ \E b \in BlockIds, C \in Types, k \in Keys : IsType(b, C, k)

Spec == Init /\ [][Next]_vars

\* The lifecycle of several DataBlocks: new, clone and drop, with calls on
\* each of them at one type.
LifeTypes == {"c_int"}
LifeKeys == {<<"s1", "a">>, <<"s2", "a">>}

NextLife ==
    \/ \E b \in BlockIds : New(b)
    \/ \E b \in BlockIds, c \in BlockIds : Clone(b, c)
    \/ \E b \in BlockIds : Drop(b)
    \/ \E b \in BlockIds, T \in LifeTypes, k \in LifeKeys : \E v \in Vals(T) : Put(b, T, k, v)
    \/ \E b \in BlockIds, T \in LifeTypes, k \in LifeKeys : \E v \in Vals(T) : Insert(b, T, k, v)
    \/ \E b \in BlockIds, T \in LifeTypes, k \in LifeKeys : Get(b, T, k)

SpecLife == Init /\ [][NextLife]_vars

\* Text: put::<str>, get::<String> and get::<f64>, the replace of a text,
\* and a DataBlock that also holds bytes written as a &CStr.
TextKeys == {<<"s1", "a">>, <<"s2", "a">>}

NextText ==
    \/ \E b \in BlockIds, k \in TextKeys, v \in TextVals : Put(b, "String", k, v)
    \/ \E b \in BlockIds, k \in TextKeys, bytes \in CStrVals : PutCStr(b, k, bytes)
    \/ \E b \in BlockIds, k \in TextKeys, v \in TextVals : Replace(b, "String", k, v)
    \/ \E b \in BlockIds, T \in {"String", "f64"}, k \in TextKeys : Get(b, T, k)

SpecText == Init /\ [][NextText]_vars

\* Replace under allocation failures of the native store: the direct
\* replace of a scalar, a vector and a text, and insert.
FaultTypes == {"c_int", "Vec_c_int", "String"}
FaultKeys == {<<"s1", "a">>, <<"s1", "b">>}

NextFault ==
    \/ \E F \in SUBSET FaultPoints : Arm(F)
    \/ \E b \in BlockIds, T \in FaultTypes, k \in FaultKeys : \E v \in Vals(T) : Put(b, T, k, v)
    \/ \E b \in BlockIds, T \in FaultTypes, k \in FaultKeys : \E v \in Vals(T) : Replace(b, T, k, v)
    \/ \E b \in BlockIds, T \in FaultTypes \cap InsertTypes, k \in FaultKeys :
          \E v \in Vals(T) : Insert(b, T, k, v)
    \/ \E b \in BlockIds, T \in FaultTypes, k \in FaultKeys : Get(b, T, k)

SpecFault == Init /\ [][NextFault]_vars

----------------------------------------------------------------------------
(* Properties *)

\* Two entries of a store are the same: both absent, or the same tag and value.
SameEntry(e1, e2) ==
    /\ e1.present = e2.present
    /\ e1.present => (e1.ty = e2.ty /\ e1.val = e2.val)

SameStore(s1, s2) ==
    /\ s1.state = s2.state
    /\ s1.sections = s2.sections
    /\ \A k \in Keys : SameEntry(s1.entries[k], s2.entries[k])

\* The store of the DataBlock of the last call, before that call.
Pre == prev.heap[prev.ptr[last.blk]]

\* A result is the error of the given kind.
IsErr(r, kind) == ~r.ok /\ r.kind = kind

\* A result is Ok of the value v of type T.
IsOk(r, T, v) == r.ok /\ r.obj.ty = T /\ r.obj.val = v

\* C1: after a successful put::<T> of a scalar v at a key not yet present,
\* get::<T> at that key returns Ok(v) and get::<U>, for every other supported
\* type U, fails with DBS_WRONG_VALUE_TYPE.
C1_PutThenGet ==
    (last.op = "put" /\ last.ty \in ScalarTypes /\ last.res.ok) =>
        LET st == DB(last.blk) IN
        /\ IsOk(get(st, last.ty, last.key), last.ty, last.arg)
        /\ \A U \in Types \ {last.ty} :
              IsErr(get(st, U, last.key), DBS_WRONG_VALUE_TYPE)

C1_Witness ==
    /\ last.op = "put"
    /\ last.ty = "Complex"
    /\ last.res.ok
    /\ ~contains(Pre, last.key)
    /\ last.arg # default_val("Complex")

C3_PutExisting ==
    (last.op = "put" /\ contains(Pre, last.key)) =>
        /\ IsErr(last.res, DBS_NAME_ALREADY_EXISTS)
        /\ SameStore(DB(last.blk), Pre)

C3_Witness ==
    /\ last.op = "put"
    /\ contains(Pre, last.key)
    /\ Pre.entries[last.key].ty # cosmosis_type(last.ty)
    /\ ~last.res.ok

\* C4: insert::<T> at an absent key has the effect of put::<T> and returns
\* Ok(None); at a key holding old of type T it returns Ok(Some(old)), old
\* being the value stored right before the call, and get::<T> then returns
\* Ok of the new value.
C4_Insert ==
    last.op = "insert" =>
        LET e == Pre.entries[last.key] IN
        /\ ~e.present =>
              /\ last.res.ok /\ ~last.res.obj.some
              /\ SameStore(DB(last.blk), put(Pre, last.ty, last.key, last.arg).st)
              /\ IsOk(get(DB(last.blk), last.ty, last.key), last.ty, last.arg)
        /\ (e.present /\ e.ty = cosmosis_type(last.ty)) =>
              /\ last.res.ok /\ last.res.obj.some
              /\ last.res.obj.obj.ty = last.ty
              /\ last.res.obj.obj.val = e.val
              /\ IsOk(get(DB(last.blk), last.ty, last.key), last.ty, last.arg)

C4_Witness ==
    /\ last.op = "insert"
    /\ last.ty = "c_int"
    /\ contains(Pre, last.key)
    /\ last.res.ok
    /\ last.res.obj.obj.val # last.arg

\* C7 as claimed: get_type is None whenever the native type query reports a
\* status other than success, name-not-found or not, and is Some(tag) only
\* when the query succeeded.
C7_GetTypeNoneOnFailure ==
    \A b \in Live : \A k \in Keys :
        LET r == c_datablock_get_type(DB(b), k, DBT_UNKNOWN) IN
        /\ r.status # DBS_SUCCESS => get_type(DB(b), k) = None
        /\ get_type(DB(b), k).some => r.status = DBS_SUCCESS

\* C8: is_type::<C> is true exactly when the entry exists and its stored tag
\* is the tag of C's internal type: false for an absent entry, false for an
\* entry of another type.
C8_IsType ==
    \A b \in Live : \A k \in Keys : \A C \in Types :
        LET e == DB(b).entries[k] IN
        is_type(DB(b), C, k) <=> (e.present /\ e.ty = cosmosis_type(C))

C8_Witness ==
    /\ last.op = "is_type"
    /\ last.res
    /\ \E C \in Types : ~is_type(DB(last.blk), C, last.key)
    /\ \E k \in Keys : ~contains(DB(last.blk), k) /\ ~is_type(DB(last.blk), last.ty, k)

\* C9: a vector get whose length probe is negative fails with
\* DBS_WRONG_VALUE_TYPE when contains is true and with DBS_NAME_NOT_FOUND
\* when it is false, and with nothing else.
C9_NegativeLength ==
    \A b \in Live : \A k \in Keys : \A T \in VectorTypes :
        c_datablock_get_array_length(DB(b), k) < 0 =>
            IF contains(DB(b), k)
            THEN IsErr(get(DB(b), T, k), DBS_WRONG_VALUE_TYPE)
            ELSE IsErr(get(DB(b), T, k), DBS_NAME_NOT_FOUND)

C9_Witness ==
    /\ last.op = "get"
    /\ last.ty \in VectorTypes
    /\ c_datablock_get_array_length(DB(last.blk), last.key) < 0
    /\ contains(DB(last.blk), last.key)
    /\ IsErr(last.res, DBS_WRONG_VALUE_TYPE)

\* C10: after a successful put of a 1-D array, the empty one included, at an
\* absent key, the get of that vector type returns Ok of the same elements
\* in the same order and contains is true; the get of a vector at an absent
\* key fails with DBS_NAME_NOT_FOUND, so the empty array and absence differ.
C10_VectorRoundTrip ==
    /\ (last.op = "put" /\ last.ty \in VectorTypes /\ last.res.ok) =>
          /\ IsOk(get(DB(last.blk), last.ty, last.key), last.ty, last.arg)
          /\ Len(get(DB(last.blk), last.ty, last.key).obj.val) = Len(last.arg)
          /\ contains(DB(last.blk), last.key)
    /\ \A b \in Live : \A k \in Keys : \A T \in VectorTypes :
          ~DB(b).entries[k].present => IsErr(get(DB(b), T, k), DBS_NAME_NOT_FOUND)

C10_Witness ==
    /\ last.op = "put"
    /\ last.ty \in VectorTypes
    /\ last.res.ok
    /\ last.arg = <<>>
    /\ \E k \in Keys : ~contains(DB(last.blk), k)

\* What the wrapper's reads return on a store, and on DataBlock b, at the
\* keys the lifecycle writes.
StoreView(st) ==
    [k \in LifeKeys |->
        [has |-> contains(st, k),
         type |-> get_type(st, k),
         get |-> [T \in Types |-> get(st, T, k)]]]

View(b) == StoreView(DB(b))

\* What the reads of DataBlock b returned before the last call.
ViewBefore(b) == StoreView(prev.heap[prev.ptr[b]])

\* C5: a clone reads as the DataBlock it was cloned from did at the clone,
\* and wraps a handle of its own; and no call on one DataBlock (put, insert,
\* a read, its drop), nor the making of another, changes what the reads of
\* any other DataBlock return.
C5_CloneIndependent ==
    /\ \A b \in Live \cap DOMAIN prev.ptr :
          b # last.blk => View(b) = ViewBefore(b)
    /\ last.op = "clone" =>
          /\ View(last.blk) = ViewBefore(last.src)
          /\ ptr[last.blk] # ptr[last.src]

\* A clone of a populated DataBlock was written to, and differs from the
\* DataBlock it was cloned from, which is still alive.
C5_Witness ==
    /\ last.op \in {"put", "insert"}
    /\ last.res.ok
    /\ origin[last.blk] # NullPtr
    /\ \E b \in Live :
          /\ ptr[b] = origin[last.blk]
          /\ \E k \in LifeKeys : contains(DB(b), k)
          /\ View(b) # View(last.blk)

\* How many live DataBlocks wrap handle h.
Owners(h) == {b \in Live : ptr[b] = h}

\* C6: a live DataBlock wraps a handle, never null, that no other live
\* DataBlock wraps and that was not released; every handle ever made is
\* wrapped by a live DataBlock or was released once, and no handle, the null
\* one included, was released otherwise.
C6_ReleasedOnce ==
    /\ \A b \in Live :
          /\ ptr[b] # NullPtr
          /\ heap[ptr[b]].state = "live"
          /\ Owners(ptr[b]) = {b}
          /\ destroyLog[ptr[b]] = 0
    /\ \A h \in Handles :
          /\ destroyLog[h] <= 1
          /\ (heap[h].state # "unallocated" /\ Owners(h) = {}) => destroyLog[h] = 1
          /\ heap[h].state = "unallocated" => destroyLog[h] = 0
    /\ destroyLog[NullPtr] = 0

\* A clone outlived the DataBlock it was cloned from.
C6_Witness ==
    /\ last.op = "drop"
    /\ \E b \in Live : origin[b] = last.handle /\ destroyLog[origin[b]] = 1
    /\ \A b \in Live : destroyLog[ptr[b]] = 0

----------------------------------------------------------------------------
(* Text, statuses, replace *)

\* C11: after put::<str> of a text s with no NUL inside, at a key that held
\* nothing, the put is Ok, get::<String> at that key returns Ok(s), byte for
\* byte, and get::<f64> fails with DBS_WRONG_VALUE_TYPE.
C11_TextRoundTrip ==
    (last.op = "put" /\ last.ty = "String" /\ ~HasNul(last.arg)
        /\ ~contains(Pre, last.key)) =>
        /\ last.res.ok
        /\ IsOk(get(DB(last.blk), "String", last.key), "String", last.arg)
        /\ Len(get(DB(last.blk), "String", last.key).obj.val) = Len(last.arg)
        /\ IsErr(get(DB(last.blk), "f64", last.key), DBS_WRONG_VALUE_TYPE)

\* The text of a two-byte character was put into a section never created.
C11_Witness ==
    /\ last.op = "put"
    /\ last.ty = "String"
    /\ last.arg = <<195, 169>>
    /\ ~contains_section(Pre, last.key[1])
    /\ last.res.ok
    /\ contains(DB(last.blk), last.key)

\* The steps of a wrapper call that are calls of a native getter, putter,
\* replacer.
GetterFns ==
    {"c_datablock_get", "c_datablock_get_array_1d_preallocated", "c_datablock_get_string"}

PutterFns == {"c_datablock_put", "c_datablock_put_array_1d", "c_datablock_put_string"}

ReplacerFns ==
    {"c_datablock_replace", "c_datablock_replace_array_1d", "c_datablock_replace_string"}

CallsOf(calls, fns) == {i \in 1..Len(calls) : calls[i].fn \in fns}

\* C12: a get is Ok only when its native getter was called and returned
\* DBS_SUCCESS, and the value is then the one stored, which the getter wrote,
\* not the scratch value; whenever the native getter returned another status
\* the get is Err of exactly that status.
C12_GetStatus ==
    last.op = "get" =>
        LET g == CallsOf(last.calls, GetterFns)
            e == Pre.entries[last.key]
        IN  /\ \A i \in g : last.calls[i].status # DBS_SUCCESS =>
                  IsErr(last.res, last.calls[i].status)
            /\ last.res.ok =>
                  /\ \E i \in g : last.calls[i].status = DBS_SUCCESS
                  /\ e.present /\ e.ty = cosmosis_type(last.ty)
                  /\ IsOk(last.res, last.ty, e.val)

\* A scalar getter reported a stored value of another type.
C12_Witness ==
    /\ last.op = "get"
    /\ last.ty \in ScalarTypes
    /\ \E i \in CallsOf(last.calls, GetterFns) :
          last.calls[i].status = DBS_WRONG_VALUE_TYPE
    /\ IsErr(last.res, DBS_WRONG_VALUE_TYPE)
    /\ contains(Pre, last.key)

\* The value a replace or the replace of an insert returned.
OldOf(r) == IF last.op = "insert" THEN r.obj.obj ELSE r.obj

\* C13: a replace (called directly, or by insert at a key that holds a
\* value) reads first: when the read fails its error is returned, the native
\* replacer is not called and the store is as it was; when the read is Ok the
\* native replacer is called once, after the read, and when it fails its
\* status is the error returned; the call is Ok, of the value read, only
\* when both were.
C13_ReplaceOrder ==
    ((last.op = "replace" \/ (last.op = "insert" /\ contains(Pre, last.key)))
        /\ ~(last.ty = "String" /\ HasNul(last.arg))) =>
        LET c == last.calls
            read == get(Pre, last.ty, last.key)
            reps == CallsOf(c, ReplacerFns)
            off == IF last.op = "insert" THEN 1 ELSE 0
        IN  /\ ~read.ok =>
                  /\ IsErr(last.res, read.kind)
                  /\ reps = {}
                  /\ SameStore(DB(last.blk), Pre)
            /\ read.ok =>
                  /\ reps = {Len(c)}
                  /\ SubSeq(c, 1 + off, Len(c) - 1) = direct_get_calls(Pre, last.ty, last.key)
                  /\ c[Len(c)].status # DBS_SUCCESS =>
                        /\ IsErr(last.res, c[Len(c)].status)
                        /\ SameStore(DB(last.blk), Pre)
            /\ last.res.ok =>
                  /\ read.ok
                  /\ c[Len(c)].status = DBS_SUCCESS
                  /\ OldOf(last.res).ty = last.ty
                  /\ OldOf(last.res).val = read.obj.val

\* The read of a text was Ok and the native replacer then failed.
C13_Witness ==
    /\ last.op = "replace"
    /\ last.ty = "String"
    /\ get(Pre, last.ty, last.key).ok
    /\ CallsOf(last.calls, ReplacerFns) # {}
    /\ IsErr(last.res, DBS_MEMORY_ALLOC_FAILURE)

\* C14 as claimed: no native text buffer is left allocated between calls;
\* in every text get (and the read of a text replace), on each way out of
\* it, every buffer the native getter handed over is given to libc::free
\* once, after CString::new copied it, and libc::free is given nothing else.
C14_TextBufferReleased ==
    /\ cbufs = 0
    /\ (last.op \in {"get", "replace"} /\ last.ty = "String") =>
          LET c == last.calls
              handed == {i \in CallsOf(c, GetterFns) : c[i].status = DBS_SUCCESS}
              freed == CallsOf(c, {"libc::free"})
          IN  /\ Cardinality(handed) = Cardinality(freed)
              /\ \A i \in freed :
                    /\ c[i].tag = "native_heap"
                    /\ \E j \in CallsOf(c, {"CString::new"}) :
                          j < i /\ \E h \in handed : h < j

\* C15: insert::<T> at a key that holds a value of another type fails with
\* DBS_WRONG_VALUE_TYPE, which is the error of its read; no native replacer
\* or putter is called, and the store, the entry's tag and value with it, is
\* as it was.
C15_InsertOtherType ==
    (last.op = "insert" /\ Pre.entries[last.key].present
        /\ Pre.entries[last.key].ty # cosmosis_type(last.ty)) =>
        /\ IsErr(last.res, DBS_WRONG_VALUE_TYPE)
        /\ IsErr(get(Pre, last.ty, last.key), DBS_WRONG_VALUE_TYPE)
        /\ CallsOf(last.calls, ReplacerFns \cup PutterFns) = {}
        /\ CallsOf(last.calls, GetterFns) # {}
        /\ SameStore(DB(last.blk), Pre)

\* insert::<c_int> was called at a key that holds an array.
C15_Witness ==
    /\ last.op = "insert"
    /\ last.ty = "c_int"
    /\ Pre.entries[last.key].present
    /\ Pre.entries[last.key].ty \in ArrayTags
    /\ ~last.res.ok

\* The calls that only read.
ReadOps == {"get", "contains", "contains_section", "get_type", "is_type"}

\* C16: over each call of put, insert, get, contains, contains_section,
\* get_type and is_type, every entry and every section that was there before
\* the call is there after it, the entry under the same tag; and the reads
\* leave the whole store, values included, as it was.  Holding over every
\* call, an entry stays, under the tag it was created with, for good.
C16_EntriesStay ==
    last.op \in ReadOps \cup {"put", "insert"} =>
        /\ \A k \in Keys :
              Pre.entries[k].present =>
                  /\ DB(last.blk).entries[k].present
                  /\ DB(last.blk).entries[k].ty = Pre.entries[k].ty
        /\ Pre.sections \subseteq DB(last.blk).sections
        /\ last.op \in ReadOps => SameStore(DB(last.blk), Pre)

\* An insert gave an entry a new value, and the entry kept its tag.
C16_Witness ==
    /\ last.op = "insert"
    /\ Pre.entries[last.key].present
    /\ DB(last.blk).entries[last.key].val # Pre.entries[last.key].val
    /\ DB(last.blk).entries[last.key].ty = Pre.entries[last.key].ty

====
